---- MODULE Spec2Model ----
(***************************************************************************)
(* ASC 842 lease accounting: the calculation engine (lease-calculations)   *)
(* and the route handlers that persist its journal entries.                *)
(*                                                                         *)
(* Numbers.  A JavaScript number holding money is modelled as an integer   *)
(* count of 1/Scale currency units (fixed point, six fractional digits);   *)
(* every arithmetic result is rounded to the nearest such unit, as a       *)
(* double rounds to its nearest representable value.  The discount rate is *)
(* an integer count of 1/RateDen.  Division by zero yields the IEEE        *)
(* values Infinity, -Infinity or NaN, carried as a tagged record.          *)
(***************************************************************************)
EXTENDS Integers, Sequences, FiniteSets, TLC

\* ------------------------------------------------------------------------
\* Bounds of the model
\* ------------------------------------------------------------------------
MaxTerm == 40

\* ------------------------------------------------------------------------
\* Number representation
\* ------------------------------------------------------------------------
Cent == 10000
Scale == 100 * Cent
Kilo == 1000
PowScale == Kilo * Scale
RateDen == 20
MonthsPerYear == 12

\* Max, without the floor: the second argument whatever the first
MaxWithoutFloor(a, b) == b

Max(a, b) == IF a >= b THEN a ELSE b

Abs(x) == IF x < 0 THEN 0 - x ELSE x

\* x / d rounded to the nearest integer, ties toward +infinity (d > 0)
RoundDiv(x, d) == (2 * x + d) \div (2 * d)

\* x * a / b rounded to the nearest unit, without overflowing (b > 0)
MulRat(x, a, b) ==
  LET q == x \div b
      r == x % b
  IN q * a + RoundDiv(r * a, b)

\* product of two fixed-point numbers, rounded to the nearest unit
Mul(x, y) ==
  LET xh == x \div Kilo
      xl == x % Kilo
      yh == y \div Kilo
      yl == y % Kilo
  IN xh * yh + RoundDiv(xh * yl + xl * yh + RoundDiv(xl * yl, Kilo), Kilo)

\* Math.round(x * 100) / 100
Round2(x) == ((x + Cent \div 2) \div Cent) * Cent

\* a JavaScript number that may be non-finite
Finite(v) == [kind |-> "finite", val |-> v]

\* JsDiv, dividing by one more than the divisor
JsDivByOneMore(x, n) ==
  IF n + 1 = 0
  THEN IF x > 0 THEN [kind |-> "Infinity", val |-> 0]
       ELSE IF x < 0 THEN [kind |-> "-Infinity", val |-> 0]
       ELSE [kind |-> "NaN", val |-> 0]
  ELSE IF n + 1 > 0 THEN Finite(RoundDiv(x, n + 1))
  ELSE Finite(RoundDiv(0 - x, 0 - (n + 1)))

\* x / n for an integer n, as IEEE division
JsDiv(x, n) ==
  IF n = 0
  THEN IF x > 0 THEN [kind |-> "Infinity", val |-> 0]
       ELSE IF x < 0 THEN [kind |-> "-Infinity", val |-> 0]
       ELSE [kind |-> "NaN", val |-> 0]
  ELSE IF n > 0 THEN Finite(RoundDiv(x, n))
  ELSE Finite(RoundDiv(0 - x, 0 - n))

\* Math.round(x * 100) / 100 of a possibly non-finite number
Round2Js(x) == IF x.kind = "finite" THEN Finite(Round2(x.val)) ELSE x

\* ------------------------------------------------------------------------
\* Dates: an ISO date string 'YYYY-MM-DD' is the record of its three fields
\* ------------------------------------------------------------------------
IsLeap(y) == (y % 4 = 0 /\ y % 100 # 0) \/ y % 400 = 0

DaysInMonth(y, m) ==
  IF m = 2 THEN (IF IsLeap(y) THEN 29 ELSE 28)
  ELSE IF m \in {4, 6, 9, 11} THEN 30 ELSE 31

Date(y, m, d) == [year |-> y, month |-> m, day |-> d]

\* index of the calendar month of a date, counted from year 0
MonthIndex(date) == date.year * MonthsPerYear + (date.month - 1)

\* a > b on dates (Date.getTime comparison)
DateAfter(a, b) ==
  \/ a.year > b.year
  \/ a.year = b.year /\ a.month > b.month
  \/ a.year = b.year /\ a.month = b.month /\ a.day > b.day

\* normalise a day number that runs past the end of its month
RECURSIVE NormalizeDay(_, _)
NormalizeDay(mi, d) ==
  LET y == mi \div MonthsPerYear
      m == (mi % MonthsPerYear) + 1
  IN IF d > DaysInMonth(y, m)
     THEN NormalizeDay(mi + 1, d - DaysInMonth(y, m))
     ELSE Date(y, m, d)

\* date.setMonth(date.getMonth() + k)
SetMonth(date, k) == NormalizeDay(MonthIndex(date) + k, date.day)

\* the day before and the day after a date
PreviousDay(date) ==
  IF date.day > 1 THEN Date(date.year, date.month, date.day - 1)
  ELSE LET mi == MonthIndex(date) - 1
           y == mi \div MonthsPerYear
           m == (mi % MonthsPerYear) + 1
       IN Date(y, m, DaysInMonth(y, m))

NextDay(date) == NormalizeDay(MonthIndex(date), date.day + 1)

\* the offset from UTC, in hours, of the time zone the engine runs in
VARIABLE timeZone

\* the offsets the engine is run under: five hours behind UTC, and UTC
TimeZones == {0 - 5, 0}

\* new Date('YYYY-MM-DD') is midnight UTC of that date; getFullYear, getMonth,
\* getDate and setMonth read and write it as local time, where it is still the
\* day before when the zone is behind UTC
LocalDate(date) == IF timeZone < 0 THEN PreviousDay(date) ELSE date

\* date.toISOString().split('T')[0]: the UTC date of a local date that keeps
\* the time of day of LocalDate
ToISODate(date) == IF timeZone < 0 THEN NextDay(date) ELSE date

\* ------------------------------------------------------------------------
\* lease-calculations
\* ------------------------------------------------------------------------

\* product of two numbers scaled by PowScale, rounded to the nearest unit
MulPow(x, y) ==
  LET x2 == x \div Scale
      x1 == (x % Scale) \div Kilo
      x0 == x % Kilo
      y2 == y \div Scale
      y1 == (y % Scale) \div Kilo
      y0 == y % Kilo
  IN x2 * y2 * Kilo + x2 * y1 + x1 * y2
       + RoundDiv(x2 * y0 + x1 * y1 + x0 * y2
                    + RoundDiv(x1 * y0 + x0 * y1, Kilo), Kilo)

\* base to the power n >= 0 (binary exponentiation), scaled by PowScale
RECURSIVE PowInt(_, _)
PowInt(base, n) ==
  IF n = 0 THEN PowScale
  ELSE IF n = 1 THEN base
  ELSE LET half == PowInt(base, n \div 2)
           square == MulPow(half, half)
       IN IF n % 2 = 0 THEN square ELSE MulPow(square, base)

\* Math.pow(1 + discountRate / 12, -n), scaled by PowScale
Discount(discountRate, n) ==
  IF n >= 0
  THEN PowInt(MulRat(PowScale, MonthsPerYear * RateDen,
                     MonthsPerYear * RateDen + discountRate), n)
  ELSE PowInt(MulRat(PowScale, MonthsPerYear * RateDen + discountRate,
                     MonthsPerYear * RateDen), 0 - n)

\* AnnuityFactor, taken for one payment more than there are
AnnuityFactorOfNextTerm(discountRate, n) ==
  IF discountRate > 0
  THEN MulRat(PowScale - Discount(discountRate, n + 1),
              MonthsPerYear * RateDen, discountRate * Kilo)
  ELSE MulRat(Discount(discountRate, n + 1) - PowScale,
              MonthsPerYear * RateDen, (0 - discountRate) * Kilo)

\* (1 - Math.pow(1 + monthlyRate, -n)) / monthlyRate, scaled by Scale
AnnuityFactor(discountRate, n) ==
  IF discountRate > 0
  THEN MulRat(PowScale - Discount(discountRate, n),
              MonthsPerYear * RateDen, discountRate * Kilo)
  ELSE MulRat(Discount(discountRate, n) - PowScale,
              MonthsPerYear * RateDen, (0 - discountRate) * Kilo)

\* calculatePresentValue, never discounting
calculatePresentValueUndiscounted(monthlyPayment, discountRate, numberOfPayments) ==
  monthlyPayment * numberOfPayments

\* calculatePresentValue, rounding to cents in the zero-rate branch as well
calculatePresentValueRoundingZeroRate(monthlyPayment, discountRate, numberOfPayments) ==
  IF discountRate = 0
  THEN Round2(monthlyPayment * numberOfPayments)
  ELSE Round2(Mul(monthlyPayment, AnnuityFactor(discountRate, numberOfPayments)))

calculatePresentValue(monthlyPayment, discountRate, numberOfPayments) ==
  IF discountRate = 0
  THEN monthlyPayment * numberOfPayments
  ELSE Round2(Mul(monthlyPayment, AnnuityFactor(discountRate, numberOfPayments)))

calculateLeaseTerm(startDate, endDate) ==
  LET start == LocalDate(startDate)
      end == LocalDate(endDate)
  IN (end.year - start.year) * MonthsPerYear + (end.month - start.month)

\* OrZero, taking an absent field for one cent
OrZeroAbsentAsCent(leaseData, f) ==
  IF f \in DOMAIN leaseData THEN leaseData[f] ELSE Cent

\* leaseData.f || 0 for an optional numeric field
OrZero(leaseData, f) == IF f \in DOMAIN leaseData THEN leaseData[f] ELSE 0

\* calculateLeaseMetrics, adding the lease incentives to the asset
calculateLeaseMetricsAddsIncentives(leaseData) ==
  LET totalLeaseTerm ==
        calculateLeaseTerm(leaseData.leaseStartDate, leaseData.leaseEndDate)
      presentValueOfLeasePayments ==
        calculatePresentValue(leaseData.monthlyPayment, leaseData.discountRate,
                              totalLeaseTerm)
      initialDirectCosts == OrZero(leaseData, "initialDirectCosts")
      prepaidRent == OrZero(leaseData, "prepaidRent")
      leaseIncentives == OrZero(leaseData, "leaseIncentives")
      initialLeaseLiability == presentValueOfLeasePayments
      initialRightOfUseAsset ==
        initialLeaseLiability + initialDirectCosts + prepaidRent + leaseIncentives
      monthlyAmortizationExpense == JsDiv(initialRightOfUseAsset, totalLeaseTerm)
  IN [initialLeasePayment |-> leaseData.monthlyPayment,
      initialRightOfUseAsset |-> Round2(initialRightOfUseAsset),
      initialLeaseLiability |-> Round2(initialLeaseLiability),
      monthlyInterestExpense |-> 0,
      monthlyAmortizationExpense |-> Round2Js(monthlyAmortizationExpense),
      monthlyLeaseLiabilityReduction |-> 0,
      totalLeaseTerm |-> totalLeaseTerm,
      presentValueOfLeasePayments |-> Round2(presentValueOfLeasePayments)]

\* calculateLeaseMetrics, counting the prepaid rent into the lease liability
calculateLeaseMetricsLiabilityWithPrepaidRent(leaseData) ==
  LET totalLeaseTerm ==
        calculateLeaseTerm(leaseData.leaseStartDate, leaseData.leaseEndDate)
      presentValueOfLeasePayments ==
        calculatePresentValue(leaseData.monthlyPayment, leaseData.discountRate,
                              totalLeaseTerm)
      initialDirectCosts == OrZero(leaseData, "initialDirectCosts")
      prepaidRent == OrZero(leaseData, "prepaidRent")
      leaseIncentives == OrZero(leaseData, "leaseIncentives")
      initialLeaseLiability == presentValueOfLeasePayments + prepaidRent
      initialRightOfUseAsset ==
        initialLeaseLiability + initialDirectCosts - leaseIncentives
      monthlyAmortizationExpense == JsDiv(initialRightOfUseAsset, totalLeaseTerm)
  IN [initialLeasePayment |-> leaseData.monthlyPayment,
      initialRightOfUseAsset |-> Round2(initialRightOfUseAsset),
      initialLeaseLiability |-> Round2(initialLeaseLiability),
      monthlyInterestExpense |-> 0,
      monthlyAmortizationExpense |-> Round2Js(monthlyAmortizationExpense),
      monthlyLeaseLiabilityReduction |-> 0,
      totalLeaseTerm |-> totalLeaseTerm,
      presentValueOfLeasePayments |-> Round2(presentValueOfLeasePayments)]

calculateLeaseMetrics(leaseData) ==
  LET totalLeaseTerm ==
        calculateLeaseTerm(leaseData.leaseStartDate, leaseData.leaseEndDate)
      presentValueOfLeasePayments ==
        calculatePresentValue(leaseData.monthlyPayment, leaseData.discountRate,
                              totalLeaseTerm)
      initialDirectCosts == OrZero(leaseData, "initialDirectCosts")
      prepaidRent == OrZero(leaseData, "prepaidRent")
      leaseIncentives == OrZero(leaseData, "leaseIncentives")
      initialLeaseLiability == presentValueOfLeasePayments
      initialRightOfUseAsset ==
        initialLeaseLiability + initialDirectCosts + prepaidRent - leaseIncentives
      monthlyAmortizationExpense == JsDiv(initialRightOfUseAsset, totalLeaseTerm)
  IN [initialLeasePayment |-> leaseData.monthlyPayment,
      initialRightOfUseAsset |-> Round2(initialRightOfUseAsset),
      initialLeaseLiability |-> Round2(initialLeaseLiability),
      monthlyInterestExpense |-> 0,
      monthlyAmortizationExpense |-> Round2Js(monthlyAmortizationExpense),
      monthlyLeaseLiabilityReduction |-> 0,
      totalLeaseTerm |-> totalLeaseTerm,
      presentValueOfLeasePayments |-> Round2(presentValueOfLeasePayments)]

\* ScheduleRow, carrying the balance forward without the month's interest
ScheduleRowCarryWithoutInterest(leaseData, calculation, month, currentLeaseLiability, currentRightOfUseAsset) ==
  LET interestExpense ==
        MulRat(currentLeaseLiability, leaseData.discountRate,
               MonthsPerYear * RateDen)
      principalReduction == leaseData.monthlyPayment - interestExpense
      endingLeaseLiability == currentLeaseLiability - principalReduction
      rightOfUseAssetAmortization == calculation.monthlyAmortizationExpense.val
      rightOfUseAssetBalance ==
        currentRightOfUseAsset - rightOfUseAssetAmortization
  IN [row |->
        [month |-> month,
         date |-> ToISODate(SetMonth(LocalDate(leaseData.leaseStartDate),
                                     month - 1)),
         beginningLeaseLiability |-> Round2(currentLeaseLiability),
         interestExpense |-> Round2(interestExpense),
         leasePayment |-> leaseData.monthlyPayment,
         principalReduction |-> Round2(principalReduction),
         endingLeaseLiability |-> Round2(Max(0, endingLeaseLiability)),
         rightOfUseAssetAmortization |-> Round2(rightOfUseAssetAmortization),
         rightOfUseAssetBalance |-> Round2(Max(0, rightOfUseAssetBalance))],
      currentLeaseLiability |->
        Max(0, currentLeaseLiability - leaseData.monthlyPayment),
      currentRightOfUseAsset |-> Max(0, rightOfUseAssetBalance)]

\* one iteration of the loop of generateAmortizationSchedule
ScheduleRow(leaseData, calculation, month, currentLeaseLiability, currentRightOfUseAsset) ==
  LET interestExpense ==
        MulRat(currentLeaseLiability, leaseData.discountRate,
               MonthsPerYear * RateDen)
      principalReduction == leaseData.monthlyPayment - interestExpense
      endingLeaseLiability == currentLeaseLiability - principalReduction
      rightOfUseAssetAmortization == calculation.monthlyAmortizationExpense.val
      rightOfUseAssetBalance ==
        currentRightOfUseAsset - rightOfUseAssetAmortization
  IN [row |->
        [month |-> month,
         date |-> ToISODate(SetMonth(LocalDate(leaseData.leaseStartDate),
                                     month - 1)),
         beginningLeaseLiability |-> Round2(currentLeaseLiability),
         interestExpense |-> Round2(interestExpense),
         leasePayment |-> leaseData.monthlyPayment,
         principalReduction |-> Round2(principalReduction),
         endingLeaseLiability |-> Round2(Max(0, endingLeaseLiability)),
         rightOfUseAssetAmortization |-> Round2(rightOfUseAssetAmortization),
         rightOfUseAssetBalance |-> Round2(Max(0, rightOfUseAssetBalance))],
      currentLeaseLiability |-> Max(0, endingLeaseLiability),
      currentRightOfUseAsset |-> Max(0, rightOfUseAssetBalance)]

\* ScheduleLoop, running one month past the lease term
RECURSIVE ScheduleLoopOneMore(_, _, _, _, _, _)
ScheduleLoopOneMore(leaseData, calculation, month, currentLeaseLiability, currentRightOfUseAsset, schedule) ==
  IF month <= calculation.totalLeaseTerm + 1
  THEN LET step == ScheduleRow(leaseData, calculation, month,
                               currentLeaseLiability, currentRightOfUseAsset)
       IN ScheduleLoopOneMore(leaseData, calculation, month + 1,
                              step.currentLeaseLiability,
                              step.currentRightOfUseAsset,
                              Append(schedule, step.row))
  ELSE schedule

RECURSIVE ScheduleLoop(_, _, _, _, _, _)
ScheduleLoop(leaseData, calculation, month, currentLeaseLiability, currentRightOfUseAsset, schedule) ==
  IF month <= calculation.totalLeaseTerm
  THEN LET step == ScheduleRow(leaseData, calculation, month,
                               currentLeaseLiability, currentRightOfUseAsset)
       IN ScheduleLoop(leaseData, calculation, month + 1,
                       step.currentLeaseLiability, step.currentRightOfUseAsset,
                       Append(schedule, step.row))
  ELSE schedule

\* generateAmortizationSchedule, with the loop starting at month 2
generateAmortizationScheduleFromSecondMonth(leaseData) ==
  LET calculation == calculateLeaseMetrics(leaseData)
  IN ScheduleLoop(leaseData, calculation, 2, calculation.initialLeaseLiability,
                  calculation.initialRightOfUseAsset, << >>)

generateAmortizationSchedule(leaseData) ==
  LET calculation == calculateLeaseMetrics(leaseData)
  IN ScheduleLoop(leaseData, calculation, 1, calculation.initialLeaseLiability,
                  calculation.initialRightOfUseAsset, << >>)

\* IsPositive, true of every field that is present
IsPresent(leaseData, f) == f \in DOMAIN leaseData

\* leaseData.f && leaseData.f > 0 for an optional numeric field
IsPositive(leaseData, f) == f \in DOMAIN leaseData /\ leaseData[f] > 0

\* leaseData.id || ''
LeaseIdOf(leaseData) == IF "id" \in DOMAIN leaseData THEN leaseData.id ELSE ""

AccountEntry(account, amount) == [account |-> account, amount |-> amount]

generateInitialRecognitionEntry(leaseData) ==
  LET calculation == calculateLeaseMetrics(leaseData)
      debits ==
        << AccountEntry("Right-of-Use Asset", calculation.initialRightOfUseAsset) >>
        \o (IF IsPositive(leaseData, "leaseIncentives")
            THEN << AccountEntry("Lease Incentives Receivable",
                                 leaseData.leaseIncentives) >>
            ELSE << >>)
      credits ==
        << AccountEntry("Lease Liability", calculation.initialLeaseLiability) >>
        \o (IF IsPositive(leaseData, "prepaidRent")
            THEN << AccountEntry("Prepaid Rent", leaseData.prepaidRent) >>
            ELSE << >>)
        \o (IF IsPositive(leaseData, "initialDirectCosts")
            THEN << AccountEntry("Cash", leaseData.initialDirectCosts) >>
            ELSE << >>)
  IN [leaseId |-> LeaseIdOf(leaseData),
      entryDate |-> leaseData.leaseStartDate,
      entryType |-> "initial_recognition",
      description |-> << "Initial recognition of lease: ", leaseData.leaseName >>,
      debits |-> debits,
      credits |-> credits]

\* interestEntry, crediting Cash with the principal instead of the payment
interestEntryCreditsPrincipal(leaseData, monthData) ==
  [leaseId |-> LeaseIdOf(leaseData),
   entryDate |-> monthData.date,
   entryType |-> "monthly_amortization",
   description |->
     << "Month ", monthData.month, " - Interest expense and lease payment" >>,
   debits |-> << AccountEntry("Interest Expense", monthData.interestExpense),
                 AccountEntry("Lease Liability", monthData.principalReduction) >>,
   credits |-> << AccountEntry("Cash", monthData.principalReduction) >>]

\* the two entries pushed for one schedule row
interestEntry(leaseData, monthData) ==
  [leaseId |-> LeaseIdOf(leaseData),
   entryDate |-> monthData.date,
   entryType |-> "monthly_amortization",
   description |->
     << "Month ", monthData.month, " - Interest expense and lease payment" >>,
   debits |-> << AccountEntry("Interest Expense", monthData.interestExpense),
                 AccountEntry("Lease Liability", monthData.principalReduction) >>,
   credits |-> << AccountEntry("Cash", monthData.leasePayment) >>]

amortizationEntry(leaseData, monthData) ==
  [leaseId |-> LeaseIdOf(leaseData),
   entryDate |-> monthData.date,
   entryType |-> "monthly_amortization",
   description |->
     << "Month ", monthData.month, " - Right-of-use asset amortization" >>,
   debits |-> << AccountEntry("Amortization Expense - Right-of-Use Asset",
                              monthData.rightOfUseAssetAmortization) >>,
   credits |-> << AccountEntry("Accumulated Amortization - Right-of-Use Asset",
                               monthData.rightOfUseAssetAmortization) >>]

\* EntriesOf, pushing only the interest entry of each row
RECURSIVE EntriesOfInterestOnly(_, _, _)
EntriesOfInterestOnly(leaseData, schedule, k) ==
  IF k > Len(schedule) THEN << >>
  ELSE << interestEntry(leaseData, schedule[k]) >>
       \o EntriesOfInterestOnly(leaseData, schedule, k + 1)

\* EntriesOf, pushing the amortization entry of each row before its interest
\* entry
RECURSIVE EntriesOfAmortizationFirst(_, _, _)
EntriesOfAmortizationFirst(leaseData, schedule, k) ==
  IF k > Len(schedule) THEN << >>
  ELSE << amortizationEntry(leaseData, schedule[k]),
          interestEntry(leaseData, schedule[k]) >>
       \o EntriesOfAmortizationFirst(leaseData, schedule, k + 1)

RECURSIVE EntriesOf(_, _, _)
EntriesOf(leaseData, schedule, k) ==
  IF k > Len(schedule) THEN << >>
  ELSE << interestEntry(leaseData, schedule[k]),
          amortizationEntry(leaseData, schedule[k]) >>
       \o EntriesOf(leaseData, schedule, k + 1)

generateMonthlyAmortizationEntries(leaseData) ==
  EntriesOf(leaseData, generateAmortizationSchedule(leaseData), 1)

\* ------------------------------------------------------------------------
\* validations: leaseDataSchema (createLeaseSchema)
\* ------------------------------------------------------------------------
NonNegativeOptional(data, f) == f \notin DOMAIN data \/ data[f] >= 0

leaseDataSchema(data) ==
  /\ data.leaseName # ""
  /\ data.monthlyPayment > 0
  /\ data.discountRate >= 0
  /\ data.discountRate <= RateDen
  /\ NonNegativeOptional(data, "prepaidRent")
  /\ NonNegativeOptional(data, "initialDirectCosts")
  /\ NonNegativeOptional(data, "leaseIncentives")
  /\ DateAfter(data.leaseEndDate, data.leaseStartDate)

\* ------------------------------------------------------------------------
\* Inputs of the calculation engine
\* ------------------------------------------------------------------------
StartDates == {Date(2024, 1, 1), Date(2024, 1, 31)}

\* the last day of the calendar month k months after the start month
EndDate(start, k) ==
  LET mi == MonthIndex(start) + k
      y == mi \div MonthsPerYear
      m == (mi % MonthsPerYear) + 1
  IN Date(y, m, DaysInMonth(y, m))

Payments == {0, 44 * Cent, Scale + Cent \div 2}

DiscountRates == {0 - 1, 0, 1, RateDen}

NoFields == [f \in {} |-> 0]

\* an optional field: absent, zero, or the given positive amount
Optional(f, amount) == {NoFields, f :> 0, f :> amount}

LeaseInputs ==
  { [userId |-> "u1", leaseName |-> "Office", leaseStartDate |-> start,
     leaseEndDate |-> EndDate(start, k), monthlyPayment |-> p,
     discountRate |-> r] @@ pre @@ idc @@ inc :
       start \in StartDates, k \in 0..MaxTerm, p \in Payments,
       r \in DiscountRates,
       pre \in Optional("prepaidRent", Scale + Cent \div 2),
       idc \in Optional("initialDirectCosts", 25 * Cent),
       inc \in Optional("leaseIncentives", 2 * Scale) }

\* ------------------------------------------------------------------------
\* State
\* ------------------------------------------------------------------------
VARIABLES
  leaseData,        \* the lease record handed to the engine
  calculation,      \* result of calculateLeaseMetrics
  schedule,         \* result of generateAmortizationSchedule
  initialEntry,     \* result of generateInitialRecognitionEntry
  monthlyEntries,   \* result of generateMonthlyAmortizationEntries
  thrown,           \* the error raised by the last engine call, "none" if it returned
  pc,               \* the stage of the pipeline that runs next
  leases,           \* Firestore collection 'leases': document id -> data
  journalEntries,   \* Firestore collection 'journalEntries': document id -> data
  nextDocId,        \* the next identifier journalEntriesRef.doc() hands out
  req,              \* the requests in flight, one per client
  issued            \* number of requests received so far

engineVars ==
  << leaseData, calculation, schedule, initialEntry, monthlyEntries, thrown, pc,
     timeZone >>

apiVars == << leases, journalEntries, nextDocId, req, issued >>

vars == << engineVars, apiVars >>

NoResult == << >>

EngineInit ==
  /\ timeZone \in TimeZones
  /\ leaseData \in LeaseInputs
  /\ calculation = NoResult
  /\ schedule = NoResult
  /\ initialEntry = NoResult
  /\ monthlyEntries = NoResult
  /\ thrown = "none"
  /\ pc = "metrics"
  /\ leases = NoResult
  /\ journalEntries = NoResult
  /\ nextDocId = 1
  /\ req = NoResult
  /\ issued = 0

\* ------------------------------------------------------------------------
\* Inputs of the calculation engine: payments of a fraction of a cent
\* ------------------------------------------------------------------------

\* monthly payments of 0.0006 and 0.0016: positive numbers, which is all
\* leaseDataSchema asks of a payment
SmallPayments == {6 * (Cent \div 100), 16 * (Cent \div 100)}

SmallPaymentInputs ==
  { [userId |-> "u1", leaseName |-> "Office", leaseStartDate |-> start,
     leaseEndDate |-> EndDate(start, k), monthlyPayment |-> p,
     discountRate |-> r] :
       start \in StartDates, k \in 0..MaxTerm, p \in SmallPayments,
       r \in {1, RateDen} }

SmallPaymentInit ==
  /\ timeZone \in TimeZones
  /\ leaseData \in SmallPaymentInputs
  /\ calculation = NoResult
  /\ schedule = NoResult
  /\ initialEntry = NoResult
  /\ monthlyEntries = NoResult
  /\ thrown = "none"
  /\ pc = "metrics"
  /\ leases = NoResult
  /\ journalEntries = NoResult
  /\ nextDocId = 1
  /\ req = NoResult
  /\ issued = 0

\* the engine functions contain no throw statement and JavaScript arithmetic
\* does not raise: every call returns
CallCalculateLeaseMetrics ==
  /\ pc = "metrics"
  /\ calculation' = calculateLeaseMetrics(leaseData)
  /\ thrown' = "none"
  /\ pc' = "schedule"
  /\ UNCHANGED << leaseData, timeZone, schedule, initialEntry, monthlyEntries, apiVars >>

CallGenerateAmortizationSchedule ==
  /\ pc = "schedule"
  /\ schedule' = generateAmortizationSchedule(leaseData)
  /\ thrown' = "none"
  /\ pc' = "initial"
  /\ UNCHANGED << leaseData, timeZone, calculation, initialEntry, monthlyEntries, apiVars >>

CallGenerateInitialRecognitionEntry ==
  /\ pc = "initial"
  /\ initialEntry' = generateInitialRecognitionEntry(leaseData)
  /\ thrown' = "none"
  /\ pc' = "monthly"
  /\ UNCHANGED << leaseData, timeZone, calculation, schedule, monthlyEntries, apiVars >>

CallGenerateMonthlyAmortizationEntries ==
  /\ pc = "monthly"
  /\ monthlyEntries' = generateMonthlyAmortizationEntries(leaseData)
  /\ thrown' = "none"
  /\ pc' = "done"
  /\ UNCHANGED << leaseData, timeZone, calculation, schedule, initialEntry, apiVars >>

EngineNext ==
  \/ CallCalculateLeaseMetrics
  \/ CallGenerateAmortizationSchedule
  \/ CallGenerateInitialRecognitionEntry
  \/ CallGenerateMonthlyAmortizationEntries


\* ------------------------------------------------------------------------
\* Route handlers: POST /api/journal-entries (regenerate)
\* ------------------------------------------------------------------------
MaxRequests == 3

Clients == {1, 2}

NoUser == ""

Users == {"u1", "u2"}

\* the leases stored before the first request
StoredLeases ==
  "L1" :> [userId |-> "u1", leaseName |-> "Office",
           leaseStartDate |-> Date(2024, 1, 1),
           leaseEndDate |-> Date(2024, 3, 31),
           monthlyPayment |-> 100 * Scale, discountRate |-> 1,
           prepaidRent |-> Scale]

\* what a request body may carry as leaseId: a stored lease, none, an unknown one
RequestedLeaseIds == {"L1", "", "L9"}

IdleRequest ==
  [handler |-> "none", pc |-> "idle", user |-> NoUser, leaseId |-> "",
   body |-> NoResult, leaseData |-> NoResult, existingSnapshot |-> {},
   status |-> 0, response |-> << >>]

\* sort key of new Date(entryDate).getTime()
DateKey(date) == (date.year * MonthsPerYear + date.month) * 32 + date.day

\* insert e into the sorted sequence s after every element that is not later
RECURSIVE InsertByDate(_, _)
InsertByDate(s, e) ==
  IF s = << >> THEN << e >>
  ELSE IF DateKey(e.entryDate) < DateKey(s[Len(s)].entryDate)
  THEN Append(InsertByDate(SubSeq(s, 1, Len(s) - 1), e), s[Len(s)])
  ELSE Append(s, e)

\* Array.prototype.sort by entry date (stable)
RECURSIVE SortByDate(_)
SortByDate(s) ==
  IF s = << >> THEN << >>
  ELSE InsertByDate(SortByDate(SubSeq(s, 1, Len(s) - 1)), s[Len(s)])

\* the documents a query where('leaseId', '==', leaseId) returns
QueryByLeaseId(collection, leaseId) ==
  {id \in DOMAIN collection : collection[id].leaseId = leaseId}

\* [initialEntry, ...monthlyEntries] of the regenerate handler
AllEntries(leaseId, data) ==
  LET fullLeaseData == ("id" :> leaseId) @@ data
  IN << generateInitialRecognitionEntry(fullLeaseData) >>
       \o generateMonthlyAmortizationEntries(fullLeaseData)

\* BatchCommit, applying the sets of the batch but none of its deletes
BatchCommitWithoutDeletes(collection, deletes, sets) ==
  [id \in DOMAIN collection \cup DOMAIN sets |->
     IF id \in DOMAIN sets THEN sets[id] ELSE collection[id]]

\* batch.commit(): the deletes and the sets of a write batch, applied atomically
BatchCommit(collection, deletes, sets) ==
  [id \in (DOMAIN collection \ deletes) \cup DOMAIN sets |->
     IF id \in DOMAIN sets THEN sets[id] ELSE collection[id]]

Respond(r, code, body) ==
  req' = [req EXCEPT ![r].pc = "done", ![r].status = code, ![r].response = body]

\* a client sends POST /api/journal-entries
ReceiveRegenerate(r, user, leaseId) ==
  /\ req[r].pc \in {"idle", "done"}
  /\ issued < MaxRequests
  /\ issued' = issued + 1
  /\ req' = [req EXCEPT ![r] = [IdleRequest EXCEPT !.handler = "regenerate",
                                   !.pc = "verifyAuth", !.user = user,
                                   !.leaseId = leaseId]]
  /\ UNCHANGED << leases, journalEntries, nextDocId, engineVars >>

\* verifyAuth and the check of the request body
RegenerateVerifyAuth(r) ==
  /\ req[r].handler = "regenerate"
  /\ req[r].pc = "verifyAuth"
  /\ IF req[r].user = NoUser THEN Respond(r, 401, << >>)
     ELSE IF req[r].leaseId = "" THEN Respond(r, 400, << >>)
     ELSE req' = [req EXCEPT ![r].pc = "getLease"]
  /\ UNCHANGED << leases, journalEntries, nextDocId, issued, engineVars >>

\* the lease document is read and its owner checked
RegenerateGetLease(r) ==
  /\ req[r].handler = "regenerate"
  /\ req[r].pc = "getLease"
  /\ IF req[r].leaseId \notin DOMAIN leases THEN Respond(r, 404, << >>)
     ELSE IF leases[req[r].leaseId].userId # req[r].user
     THEN Respond(r, 403, << >>)
     ELSE req' = [req EXCEPT ![r].pc = "query",
                             ![r].leaseData = leases[req[r].leaseId]]
  /\ UNCHANGED << leases, journalEntries, nextDocId, issued, engineVars >>

\* the existing journal entries of the lease are queried
RegenerateQuery(r) ==
  /\ req[r].handler = "regenerate"
  /\ req[r].pc = "query"
  /\ req' = [req EXCEPT ![r].pc = "commit",
                        ![r].existingSnapshot =
                          QueryByLeaseId(journalEntries, req[r].leaseId)]
  /\ UNCHANGED << leases, journalEntries, nextDocId, issued, engineVars >>

\* the generated entries are committed in one batch and returned: POST deletes
\* in the same batch the entries its query returned and sorts its answer by
\* date; GET, which found no stored entry, only adds
CommitEntries(r) ==
  /\ req[r].handler \in {"regenerate", "getEntries"}
  /\ req[r].pc = "commit"
  /\ LET allEntries == AllEntries(req[r].leaseId, req[r].leaseData)
         docId(i) == nextDocId + i - 1
         sets == [id \in {docId(i) : i \in 1..Len(allEntries)} |->
                    allEntries[id - nextDocId + 1]]
         generatedEntries ==
           [i \in 1..Len(allEntries) |-> ("id" :> docId(i)) @@ allEntries[i]]
     IN /\ journalEntries' =
             BatchCommit(journalEntries, req[r].existingSnapshot, sets)
        /\ nextDocId' = nextDocId + Len(allEntries)
        /\ Respond(r, 200, IF req[r].handler = "regenerate"
                            THEN SortByDate(generatedEntries)
                            ELSE generatedEntries)
  /\ UNCHANGED << leases, issued, engineVars >>

\* batch.commit() rejects: the catch block answers 500 and nothing is written
CommitEntriesFails(r) ==
  /\ req[r].handler \in {"regenerate", "getEntries"}
  /\ req[r].pc = "commit"
  /\ Respond(r, 500, << >>)
  /\ UNCHANGED << leases, journalEntries, nextDocId, issued, engineVars >>

ApiInit ==
  /\ timeZone \in TimeZones
  /\ leaseData = NoResult
  /\ calculation = NoResult
  /\ schedule = NoResult
  /\ initialEntry = NoResult
  /\ monthlyEntries = NoResult
  /\ thrown = "none"
  /\ pc = "off"
  /\ leases = StoredLeases
  /\ journalEntries = NoResult
  /\ nextDocId = 1
  /\ req = [r \in Clients |-> IdleRequest]
  /\ issued = 0

\* no request of another client is in flight
OthersQuiet(r) == \A o \in Clients \ {r} : req[o].pc \in {"idle", "done"}

\* a request that arrives only when every earlier one has been answered
ReceiveRegenerateInTurn(r, user, leaseId) ==
  /\ OthersQuiet(r)
  /\ ReceiveRegenerate(r, user, leaseId)

\* requests arrive at any time and their handlers interleave at every await
ConcurrentNext ==
  \/ \E r \in Clients, user \in Users \cup {NoUser}, leaseId \in RequestedLeaseIds :
       ReceiveRegenerate(r, user, leaseId)
  \/ \E r \in Clients : RegenerateVerifyAuth(r)
  \/ \E r \in Clients : RegenerateGetLease(r)
  \/ \E r \in Clients : RegenerateQuery(r)
  \/ \E r \in Clients : CommitEntries(r)
  \/ \E r \in Clients : CommitEntriesFails(r)

\* the same handlers, serving one request at a time
SequentialNext ==
  \/ \E r \in Clients, user \in Users \cup {NoUser}, leaseId \in RequestedLeaseIds :
       ReceiveRegenerateInTurn(r, user, leaseId)
  \/ \E r \in Clients : RegenerateVerifyAuth(r)
  \/ \E r \in Clients : RegenerateGetLease(r)
  \/ \E r \in Clients : RegenerateQuery(r)
  \/ \E r \in Clients : CommitEntries(r)
  \/ \E r \in Clients : CommitEntriesFails(r)

\* ------------------------------------------------------------------------
\* Route handlers: GET /api/journal-entries, GET/PUT/DELETE /api/leases/[id]
\* ------------------------------------------------------------------------

\* params.id of a request to /api/leases/[id]: a stored lease, an unknown one
RequestedIds == {"L1", "L9"}

\* the keys of leaseDataSchema; z.object drops every other key of the body
SchemaKeys ==
  {"leaseName", "leaseStartDate", "leaseEndDate", "monthlyPayment",
   "discountRate", "prepaidRent", "initialDirectCosts", "leaseIncentives"}

\* updateLeaseSchema: every field of leaseDataSchema optional; the end date is
\* compared with the start date when the body carries both
updateLeaseSchema(data) ==
  /\ "leaseName" \in DOMAIN data => data.leaseName # ""
  /\ "monthlyPayment" \in DOMAIN data => data.monthlyPayment > 0
  /\ "discountRate" \in DOMAIN data =>
       (data.discountRate >= 0 /\ data.discountRate <= RateDen)
  /\ NonNegativeOptional(data, "prepaidRent")
  /\ NonNegativeOptional(data, "initialDirectCosts")
  /\ NonNegativeOptional(data, "leaseIncentives")
  /\ ({"leaseStartDate", "leaseEndDate"} \subseteq DOMAIN data) =>
       DateAfter(data.leaseEndDate, data.leaseStartDate)

\* ParseUpdate, passing the unknown keys of the body through
ParseUpdateKeepingUnknownKeys(body) == body

\* validationResult.data without its id: the known keys of the body
ParseUpdate(body) == [f \in DOMAIN body \cap SchemaKeys |-> body[f]]

\* { ...existingLeaseData, ...updateData }
updatedLeaseData(existingLeaseData, updateData) ==
  updateData @@ existingLeaseData

\* the bodies a PUT may carry: a new payment, a rename that also names another
\* owner, a discount rate outside [0, 1]
UpdateBodies ==
  { ("monthlyPayment" :> 200 * Scale)
      @@ ("leaseStartDate" :> Date(2024, 1, 1))
      @@ ("leaseEndDate" :> Date(2024, 3, 31)),
    ("leaseName" :> "Annex") @@ ("userId" :> "u2")
      @@ ("leaseStartDate" :> Date(2024, 1, 1))
      @@ ("leaseEndDate" :> Date(2024, 3, 31)),
    ("discountRate" :> RateDen + 1) }

\* the elements of a set of document ids in ascending order
RECURSIVE SeqOfIds(_)
SeqOfIds(ids) ==
  IF ids = {} THEN << >>
  ELSE LET least == CHOOSE id \in ids : \A other \in ids : id <= other
       IN << least >> \o SeqOfIds(ids \ {least})

\* storedEntries: { id: doc.id, ...doc.data() } for every document of a query
StoredEntriesOf(collection, ids) ==
  LET order == SeqOfIds(ids)
  IN [i \in 1..Len(order) |-> ("id" :> order[i]) @@ collection[order[i]]]

\* a client sends a request to one of the handlers
ReceiveRequest(r, handler, user, leaseId, body) ==
  /\ req[r].pc \in {"idle", "done"}
  /\ issued < MaxRequests
  /\ issued' = issued + 1
  /\ req' = [req EXCEPT ![r] = [IdleRequest EXCEPT !.handler = handler,
                                   !.pc = "verifyAuth", !.user = user,
                                   !.leaseId = leaseId, !.body = body]]
  /\ UNCHANGED << leases, journalEntries, nextDocId, engineVars >>

\* GET /api/journal-entries: verifyAuth and the check of the query parameter
GetEntriesVerifyAuth(r) ==
  /\ req[r].handler = "getEntries"
  /\ req[r].pc = "verifyAuth"
  /\ IF req[r].user = NoUser THEN Respond(r, 401, << >>)
     ELSE IF req[r].leaseId = "" THEN Respond(r, 400, << >>)
     ELSE req' = [req EXCEPT ![r].pc = "getLease"]
  /\ UNCHANGED << leases, journalEntries, nextDocId, issued, engineVars >>

\* GET /api/journal-entries: the lease document is read and its owner checked
GetEntriesGetLease(r) ==
  /\ req[r].handler = "getEntries"
  /\ req[r].pc = "getLease"
  /\ IF req[r].leaseId \notin DOMAIN leases THEN Respond(r, 404, << >>)
     ELSE IF leases[req[r].leaseId].userId # req[r].user
     THEN Respond(r, 403, << >>)
     ELSE req' = [req EXCEPT ![r].pc = "query",
                             ![r].leaseData = leases[req[r].leaseId]]
  /\ UNCHANGED << leases, journalEntries, nextDocId, issued, engineVars >>

\* GET /api/journal-entries: the stored entries are queried; they are returned
\* sorted by date, or, when there is none, entries are generated and committed
\* (CommitEntries)
GetEntriesQuery(r) ==
  /\ req[r].handler = "getEntries"
  /\ req[r].pc = "query"
  /\ LET snapshot == QueryByLeaseId(journalEntries, req[r].leaseId)
     IN IF snapshot = {}
        THEN req' = [req EXCEPT ![r].pc = "commit"]
        ELSE Respond(r, 200, SortByDate(StoredEntriesOf(journalEntries, snapshot)))
  /\ UNCHANGED << leases, journalEntries, nextDocId, issued, engineVars >>

\* GET /api/leases/[id]: verifyAuth
GetLeaseVerifyAuth(r) ==
  /\ req[r].handler = "getLease"
  /\ req[r].pc = "verifyAuth"
  /\ IF req[r].user = NoUser THEN Respond(r, 401, << >>)
     ELSE req' = [req EXCEPT ![r].pc = "getLease"]
  /\ UNCHANGED << leases, journalEntries, nextDocId, issued, engineVars >>

\* GET /api/leases/[id]: the lease document is read and returned to its owner
GetLeaseRead(r) ==
  /\ req[r].handler = "getLease"
  /\ req[r].pc = "getLease"
  /\ IF req[r].leaseId \notin DOMAIN leases THEN Respond(r, 404, << >>)
     ELSE IF leases[req[r].leaseId].userId # req[r].user
     THEN Respond(r, 403, << >>)
     ELSE Respond(r, 200,
                  << ("id" :> req[r].leaseId) @@ leases[req[r].leaseId] >>)
  /\ UNCHANGED << leases, journalEntries, nextDocId, issued, engineVars >>

\* PUT /api/leases/[id]: verifyAuth and the validation of the body
PutVerifyAuth(r) ==
  /\ req[r].handler = "putLease"
  /\ req[r].pc = "verifyAuth"
  /\ IF req[r].user = NoUser THEN Respond(r, 401, << >>)
     ELSE IF ~updateLeaseSchema(req[r].body) THEN Respond(r, 400, << >>)
     ELSE req' = [req EXCEPT ![r].pc = "getLease"]
  /\ UNCHANGED << leases, journalEntries, nextDocId, issued, engineVars >>

\* PUT /api/leases/[id]: the lease document is read, its owner checked and the
\* update merged over it
PutGetLease(r) ==
  /\ req[r].handler = "putLease"
  /\ req[r].pc = "getLease"
  /\ IF req[r].leaseId \notin DOMAIN leases THEN Respond(r, 404, << >>)
     ELSE IF leases[req[r].leaseId].userId # req[r].user
     THEN Respond(r, 403, << >>)
     ELSE req' = [req EXCEPT ![r].pc = "update",
                             ![r].leaseData =
                               updatedLeaseData(leases[req[r].leaseId],
                                                ParseUpdate(req[r].body))]
  /\ UNCHANGED << leases, journalEntries, nextDocId, issued, engineVars >>

\* PUT /api/leases/[id]: leaseRef.update writes the merged fields; it rejects
\* when the document no longer exists and the catch block answers 500
PutUpdate(r) ==
  /\ req[r].handler = "putLease"
  /\ req[r].pc = "update"
  /\ IF req[r].leaseId \notin DOMAIN leases
     THEN /\ Respond(r, 500, << >>)
          /\ UNCHANGED leases
     ELSE /\ leases' = [leases EXCEPT ![req[r].leaseId] =
                          req[r].leaseData @@ leases[req[r].leaseId]]
          /\ Respond(r, 200, << ("id" :> req[r].leaseId) @@ req[r].leaseData >>)
  /\ UNCHANGED << journalEntries, nextDocId, issued, engineVars >>

\* DELETE /api/leases/[id]: verifyAuth
DeleteVerifyAuth(r) ==
  /\ req[r].handler = "deleteLease"
  /\ req[r].pc = "verifyAuth"
  /\ IF req[r].user = NoUser THEN Respond(r, 401, << >>)
     ELSE req' = [req EXCEPT ![r].pc = "getLease"]
  /\ UNCHANGED << leases, journalEntries, nextDocId, issued, engineVars >>

\* DELETE /api/leases/[id]: the lease document is read and its owner checked
DeleteGetLease(r) ==
  /\ req[r].handler = "deleteLease"
  /\ req[r].pc = "getLease"
  /\ IF req[r].leaseId \notin DOMAIN leases THEN Respond(r, 404, << >>)
     ELSE IF leases[req[r].leaseId].userId # req[r].user
     THEN Respond(r, 403, << >>)
     ELSE req' = [req EXCEPT ![r].pc = "query"]
  /\ UNCHANGED << leases, journalEntries, nextDocId, issued, engineVars >>

\* DELETE /api/leases/[id]: the journal entries of the lease are queried
DeleteQuery(r) ==
  /\ req[r].handler = "deleteLease"
  /\ req[r].pc = "query"
  /\ req' = [req EXCEPT ![r].pc = "commit",
                        ![r].existingSnapshot =
                          QueryByLeaseId(journalEntries, req[r].leaseId)]
  /\ UNCHANGED << leases, journalEntries, nextDocId, issued, engineVars >>

\* DELETE /api/leases/[id]: the batch deletes the queried entries and the lease
DeleteCommit(r) ==
  /\ req[r].handler = "deleteLease"
  /\ req[r].pc = "commit"
  /\ journalEntries' = BatchCommit(journalEntries, req[r].existingSnapshot, NoResult)
  /\ leases' = [id \in DOMAIN leases \ {req[r].leaseId} |-> leases[id]]
  /\ Respond(r, 200, << >>)
  /\ UNCHANGED << nextDocId, issued, engineVars >>

\* the requests a client may send to the lease-specific handlers
ReceiveAny(r) ==
  \/ \E user \in Users \cup {NoUser}, leaseId \in RequestedLeaseIds :
       \/ ReceiveRequest(r, "regenerate", user, leaseId, NoResult)
       \/ ReceiveRequest(r, "getEntries", user, leaseId, NoResult)
  \/ \E user \in Users \cup {NoUser}, id \in RequestedIds :
       \/ ReceiveRequest(r, "getLease", user, id, NoResult)
       \/ ReceiveRequest(r, "deleteLease", user, id, NoResult)
       \/ \E body \in UpdateBodies : ReceiveRequest(r, "putLease", user, id, body)

\* all lease-specific handlers, interleaving at every await
HandlersNext ==
  \/ \E r \in Clients : ReceiveAny(r)
  \/ \E r \in Clients : RegenerateVerifyAuth(r)
  \/ \E r \in Clients : RegenerateGetLease(r)
  \/ \E r \in Clients : RegenerateQuery(r)
  \/ \E r \in Clients : CommitEntries(r)
  \/ \E r \in Clients : CommitEntriesFails(r)
  \/ \E r \in Clients : GetEntriesVerifyAuth(r)
  \/ \E r \in Clients : GetEntriesGetLease(r)
  \/ \E r \in Clients : GetEntriesQuery(r)
  \/ \E r \in Clients : GetLeaseVerifyAuth(r)
  \/ \E r \in Clients : GetLeaseRead(r)
  \/ \E r \in Clients : PutVerifyAuth(r)
  \/ \E r \in Clients : PutGetLease(r)
  \/ \E r \in Clients : PutUpdate(r)
  \/ \E r \in Clients : DeleteVerifyAuth(r)
  \/ \E r \in Clients : DeleteGetLease(r)
  \/ \E r \in Clients : DeleteQuery(r)
  \/ \E r \in Clients : DeleteCommit(r)

\* a request to any of the handlers that arrives only when every earlier one
\* has been answered
ReceiveAnyInTurn(r) ==
  /\ OthersQuiet(r)
  /\ ReceiveAny(r)

\* all lease-specific handlers, serving one request at a time
HandlersInTurnNext ==
  \/ \E r \in Clients : ReceiveAnyInTurn(r)
  \/ \E r \in Clients : RegenerateVerifyAuth(r)
  \/ \E r \in Clients : RegenerateGetLease(r)
  \/ \E r \in Clients : RegenerateQuery(r)
  \/ \E r \in Clients : CommitEntries(r)
  \/ \E r \in Clients : CommitEntriesFails(r)
  \/ \E r \in Clients : GetEntriesVerifyAuth(r)
  \/ \E r \in Clients : GetEntriesGetLease(r)
  \/ \E r \in Clients : GetEntriesQuery(r)
  \/ \E r \in Clients : GetLeaseVerifyAuth(r)
  \/ \E r \in Clients : GetLeaseRead(r)
  \/ \E r \in Clients : PutVerifyAuth(r)
  \/ \E r \in Clients : PutGetLease(r)
  \/ \E r \in Clients : PutUpdate(r)
  \/ \E r \in Clients : DeleteVerifyAuth(r)
  \/ \E r \in Clients : DeleteGetLease(r)
  \/ \E r \in Clients : DeleteQuery(r)
  \/ \E r \in Clients : DeleteCommit(r)


Init == EngineInit

Next == EngineNext

Spec == Init /\ [][Next]_vars

SpecConcurrent == ApiInit /\ [][ConcurrentNext]_vars

SpecSequential == ApiInit /\ [][SequentialNext]_vars

SpecHandlers == ApiInit /\ [][HandlersNext]_vars

SpecHandlersInTurn == ApiInit /\ [][HandlersInTurnNext]_vars

SpecSmallPayments == SmallPaymentInit /\ [][EngineNext]_vars


\* ------------------------------------------------------------------------
\* Properties
\* ------------------------------------------------------------------------
MetricsReturned == pc \in {"schedule", "initial", "monthly", "done"}

ScheduleReturned == pc \in {"initial", "monthly", "done"}

InitialEntryReturned == pc \in {"monthly", "done"}

MonthlyEntriesReturned == pc = "done"

RECURSIVE SumAmounts(_)
SumAmounts(lines) ==
  IF lines = << >> THEN 0
  ELSE lines[1].amount + SumAmounts(Tail(lines))

\* | sum of debits - sum of credits | of a journal entry
Imbalance(entry) == Abs(SumAmounts(entry.debits) - SumAmounts(entry.credits))

\* C1: every schedule row begins with the lease liability the row before it
\* ended with, and the first row begins with the initial lease liability of
\* calculateLeaseMetrics.
C1_ChainedLiability ==
  ScheduleReturned =>
    /\ \A i \in 1..(Len(schedule) - 1) :
         schedule[i + 1].beginningLeaseLiability = schedule[i].endingLeaseLiability
    /\ Len(schedule) >= 1 =>
         schedule[1].beginningLeaseLiability = calculation.initialLeaseLiability

C1_Witness ==
  /\ ScheduleReturned
  /\ Len(schedule) >= 3
  /\ leaseData.discountRate > 0
  /\ schedule[1].interestExpense > 0
  /\ schedule[3].beginningLeaseLiability > 0
  /\ schedule[3].beginningLeaseLiability < schedule[2].beginningLeaseLiability

\* C2: for a lease with valid terms, the debits and the credits of every
\* monthly entry (interest-and-payment and ROU amortization) differ by at
\* most 0.01.
C2_MonthlyEntriesBalanced ==
  (MonthlyEntriesReturned /\ leaseDataSchema(leaseData)) =>
    \A i \in 1..Len(monthlyEntries) : Imbalance(monthlyEntries[i]) <= Cent

C2_Witness ==
  /\ MonthlyEntriesReturned
  /\ leaseDataSchema(leaseData)
  /\ Len(monthlyEntries) >= 4
  /\ monthlyEntries[3].debits[1].amount > 0
  /\ monthlyEntries[3].debits[2].amount > 0
  /\ monthlyEntries[4].debits[1].amount > 0
  /\ leaseData.monthlyPayment % Cent = 0
  /\ \E i \in 1..Len(monthlyEntries) : Imbalance(monthlyEntries[i]) = Cent

\* C3: for a lease with valid terms, whatever combination of prepaid rent,
\* initial direct costs and lease incentives is present, zero or absent, the
\* debits and the credits of the initial recognition entry differ by at most
\* 0.01.
C3_InitialEntryBalanced ==
  (InitialEntryReturned /\ leaseDataSchema(leaseData)) =>
    Imbalance(initialEntry) <= Cent

C3_Witness ==
  /\ InitialEntryReturned
  /\ leaseDataSchema(leaseData)
  /\ Len(initialEntry.debits) = 2
  /\ Len(initialEntry.credits) = 3
  /\ initialEntry.credits[1].amount > 0
  /\ Imbalance(initialEntry) > 0

\* all debit and credit lines of a journal entry
LinesOf(entry) ==
  {entry.debits[i] : i \in 1..Len(entry.debits)}
    \cup {entry.credits[i] : i \in 1..Len(entry.credits)}

\* C4: for a lease the validation layer accepts, with a term of at least one
\* month, every debit and credit line of the initial recognition entry and of
\* every monthly entry has an amount strictly greater than 0.
C4_PositiveAmounts ==
  (MonthlyEntriesReturned /\ leaseDataSchema(leaseData)
     /\ calculation.totalLeaseTerm >= 1) =>
    /\ \A line \in LinesOf(initialEntry) : line.amount > 0
    /\ \A i \in 1..Len(monthlyEntries) :
         \A line \in LinesOf(monthlyEntries[i]) : line.amount > 0

\* C5: for a valid lease with a term of at least one month, the ending lease
\* liability of the last schedule row is less than 0.10.
C5_LastRowNearZero ==
  (ScheduleReturned /\ leaseDataSchema(leaseData)
     /\ calculation.totalLeaseTerm >= 1) =>
    schedule[Len(schedule)].endingLeaseLiability < 10 * Cent

C7_DegenerateTermRejected ==
  (MetricsReturned
     /\ calculateLeaseTerm(leaseData.leaseStartDate, leaseData.leaseEndDate) <= 0)
    => thrown = "DegenerateTermError"

\* C8: calculatePresentValue and calculateLeaseMetrics reject a negative
\* discount rate by raising an InvalidRateError instead of returning a present
\* value.
C8_InvalidRateRejected ==
  (MetricsReturned /\ leaseData.discountRate < 0) => thrown = "InvalidRateError"

\* the stored journal entries of a lease, without their document ids
StoredEntries(collection, leaseId) ==
  {collection[id] : id \in QueryByLeaseId(collection, leaseId)}

\* the entries of one entry type stored for a lease
StoredOfType(collection, leaseId, entryType) ==
  {id \in QueryByLeaseId(collection, leaseId) :
     collection[id].entryType = entryType}

TermOf(data) == calculateLeaseTerm(data.leaseStartDate, data.leaseEndDate)

\* the step in which request r commits its batch and answers 200
Regenerated(r) ==
  /\ req[r].handler = "regenerate"
  /\ req[r].pc = "commit"
  /\ req'[r].pc = "done"
  /\ req'[r].status = 200

\* C9: when requests are served one after the other, a regenerate request
\* that completes successfully leaves, for its lease, exactly the freshly
\* computed entries (one initial recognition entry and two entries per schedule
\* row); no entry stored for that lease before the request remains, however
\* many regenerations came before.
C9_RegenerateReplaces ==
  [][\A r \in Clients :
       Regenerated(r) =>
         LET leaseId == req[r].leaseId
             fresh == AllEntries(leaseId, req[r].leaseData)
             after == QueryByLeaseId(journalEntries', leaseId)
         IN /\ after \cap DOMAIN journalEntries = {}
            /\ Cardinality(after) = 1 + 2 * TermOf(req[r].leaseData)
            /\ StoredEntries(journalEntries', leaseId)
                 = {fresh[i] : i \in 1..Len(fresh)}
            /\ Cardinality(StoredOfType(journalEntries', leaseId,
                                        "initial_recognition")) = 1]_vars

C9_Witness ==
  \E r \in Clients :
    /\ req[r].handler = "regenerate"
    /\ req[r].pc = "done"
    /\ req[r].status = 200
    /\ req[r].existingSnapshot # {}
    /\ issued = 3
    /\ nextDocId = 1 + 3 * (1 + 2 * TermOf(leases[req[r].leaseId]))
    /\ Cardinality(QueryByLeaseId(journalEntries, req[r].leaseId))
         = 1 + 2 * TermOf(leases[req[r].leaseId])

\* C10: whatever the interleaving of concurrent regenerate requests for a
\* lease, once all of them have completed the store holds exactly one
\* generated set for that lease: one initial recognition entry and two monthly
\* entries per month of the term.
C10_OneSetPerLease ==
  (\A r \in Clients : req[r].pc \in {"idle", "done"}) =>
    \A leaseId \in DOMAIN leases :
      QueryByLeaseId(journalEntries, leaseId) # {} =>
        /\ Cardinality(StoredOfType(journalEntries, leaseId,
                                    "initial_recognition")) = 1
        /\ Cardinality(StoredOfType(journalEntries, leaseId,
                                    "monthly_amortization"))
             = 2 * TermOf(leases[leaseId])

\* every request has been answered
AllQuiet == \A r \in Clients : req[r].pc \in {"idle", "done"}

\* the leases that a DELETE has removed from the store
DeletedLeases == DOMAIN StoredLeases \ DOMAIN leases

\* C11: once a DELETE of a lease has succeeded and every request that ran
\* concurrently with it has completed, the store holds neither the lease nor
\* any journal entry whose leaseId is that lease.
C11_DeleteLeavesNothing ==
  AllQuiet =>
    \A leaseId \in DeletedLeases : QueryByLeaseId(journalEntries, leaseId) = {}

\* request r takes a step while a lease it addresses is stored under a user id
\* other than the authenticated one
NonOwnerStep(r) ==
  /\ req[r].pc \notin {"idle", "done"}
  /\ req[r].user # NoUser
  /\ req[r].leaseId \in DOMAIN leases
  /\ leases[req[r].leaseId].userId # req[r].user
  /\ req'[r] # req[r]

\* every stored lease still carries the user id of its creator
OwnerKept == \A id \in DOMAIN leases : leases[id].userId = StoredLeases[id].userId

\* a PUT whose body fails updateLeaseSchema
InvalidPut(request) ==
  request.handler = "putLease" /\ ~updateLeaseSchema(request.body)

OfType(entries, entryType) ==
  {i \in 1..Len(entries) : entries[i].entryType = entryType}

\* C13: for a lease whose schedule has N >= 1 rows,
\* generateMonthlyAmortizationEntries returns exactly 2N entries, and the set
\* the journal-entries handlers assemble holds 2N + 1 entries of which exactly
\* one is an initial_recognition entry.
C13_EntryCounts ==
  (MonthlyEntriesReturned /\ Len(schedule) >= 1) =>
    LET allEntries == << initialEntry >> \o monthlyEntries
    IN /\ Len(monthlyEntries) = 2 * Len(schedule)
       /\ Len(allEntries) = 2 * Len(schedule) + 1
       /\ Cardinality(OfType(allEntries, "initial_recognition")) = 1
       /\ Cardinality(OfType(allEntries, "monthly_amortization"))
            = 2 * Len(schedule)

C13_Witness ==
  /\ MonthlyEntriesReturned
  /\ leaseDataSchema(leaseData)
  /\ Len(schedule) = MaxTerm
  /\ Len(monthlyEntries) = 2 * MaxTerm
  /\ initialEntry.entryType = "initial_recognition"

\* C14: for a lease whose term resolves to N >= 1 whole months,
\* generateAmortizationSchedule returns exactly N rows whose month fields are
\* 1, 2, ..., N in that order; a one-month term gives exactly one row.
C14_OneRowPerMonth ==
  (ScheduleReturned /\ calculation.totalLeaseTerm >= 1) =>
    /\ Len(schedule) = calculation.totalLeaseTerm
    /\ \A i \in 1..Len(schedule) : schedule[i].month = i

C14_Witness ==
  /\ ScheduleReturned
  /\ leaseDataSchema(leaseData)
  /\ timeZone = 0
  /\ leaseData.leaseStartDate = Date(2024, 1, 1)
  /\ leaseData.leaseEndDate = Date(2024, 2, 29)
  /\ calculation.totalLeaseTerm = 1
  /\ Len(schedule) = 1
  /\ schedule[1].month = 1

\* (endYear - startYear) * 12 + (endMonth - startMonth) of two dates as written
MonthsAsWritten(startDate, endDate) ==
  (endDate.year - startDate.year) * MonthsPerYear
    + (endDate.month - startDate.month)

\* C15: calculateLeaseTerm(start, end) equals (endYear - startYear) * 12 +
\* (endMonth - startMonth) of the two calendar dates as written, whatever their
\* day of month; it is 0 when both dates lie in the same calendar month.
C15_TermOfDatesAsWritten ==
  MetricsReturned =>
    calculation.totalLeaseTerm
      = MonthsAsWritten(leaseData.leaseStartDate, leaseData.leaseEndDate)

\* the value of an optional cost of the lease, 0 when it is absent
CostOf(f) == IF f \in DOMAIN leaseData THEN leaseData[f] ELSE 0

RECURSIVE DiscountedSum(_, _, _)
DiscountedSum(monthlyPayment, discountRate, n) ==
  IF n <= 0 THEN 0
  ELSE Mul(monthlyPayment, (Discount(discountRate, n) + Kilo \div 2) \div Kilo)
         + DiscountedSum(monthlyPayment, discountRate, n - 1)

\* what the arithmetic of the model may add to half a cent of rounding
SeriesTolerance == Cent \div 100

\* C17: for a non-zero annual rate, calculatePresentValue(payment, rate, n) is
\* the ordinary-annuity present value payment * (1 - (1 + rate/12)^(-n)) /
\* (rate/12), that is the sum of the n payments each discounted to the start,
\* rounded to 2 decimals.
C17_OrdinaryAnnuity ==
  (pc = "schedule" /\ leaseData.discountRate # 0) =>
    LET presentValue ==
          calculatePresentValue(leaseData.monthlyPayment, leaseData.discountRate,
                                calculation.totalLeaseTerm)
        series ==
          DiscountedSum(leaseData.monthlyPayment, leaseData.discountRate,
                        calculation.totalLeaseTerm)
    IN /\ presentValue % Cent = 0
       /\ Abs(presentValue - series) <= Cent \div 2 + SeriesTolerance
       /\ calculation.presentValueOfLeasePayments = presentValue

C17_Witness ==
  /\ pc = "schedule"
  /\ leaseDataSchema(leaseData)
  /\ leaseData.discountRate = 1
  /\ calculation.totalLeaseTerm = 36
  /\ leaseData.monthlyPayment = Scale + Cent \div 2
  /\ calculation.presentValueOfLeasePayments = 33 * Scale + 53 * Cent

\* C18: for every payment and every number of payments n,
\* calculatePresentValue(payment, 0, n) equals payment * n exactly.
C18_ZeroRateIsSimpleSum ==
  (MetricsReturned /\ leaseData.discountRate = 0) =>
    /\ calculatePresentValue(leaseData.monthlyPayment, leaseData.discountRate,
                             calculation.totalLeaseTerm)
         = leaseData.monthlyPayment * calculation.totalLeaseTerm
    /\ calculation.presentValueOfLeasePayments
         = Round2(leaseData.monthlyPayment * calculation.totalLeaseTerm)

C18_Witness ==
  /\ MetricsReturned
  /\ leaseData.discountRate = 0
  /\ leaseData.monthlyPayment = Scale + Cent \div 2
  /\ calculation.totalLeaseTerm = 3
  /\ (leaseData.monthlyPayment * calculation.totalLeaseTerm) % Cent # 0
  /\ calculation.presentValueOfLeasePayments % Cent = 0

\* a lease with a positive payment, a positive rate and a term of at least one
\* month, whose metrics have been computed
DiscountedLease ==
  /\ pc = "schedule"
  /\ leaseData.monthlyPayment > 0
  /\ leaseData.discountRate > 0
  /\ calculation.totalLeaseTerm >= 1

\* C19 as stated: for every lease with payment > 0, rate > 0 and term n >= 1,
\* presentValueOfLeasePayments is strictly less than payment * n.
C19_StrictlyLessThanUndiscounted ==
  DiscountedLease =>
    calculation.presentValueOfLeasePayments
      < leaseData.monthlyPayment * calculation.totalLeaseTerm

\* C19 as amended: for every such lease presentValueOfLeasePayments is at most
\* payment * n rounded to cents, and it is strictly less than payment * n as
\* soon as the discount amounts to a cent.
C19_AtMostUndiscounted ==
  DiscountedLease =>
    LET undiscounted == leaseData.monthlyPayment * calculation.totalLeaseTerm
        series ==
          DiscountedSum(leaseData.monthlyPayment, leaseData.discountRate,
                        calculation.totalLeaseTerm)
    IN /\ calculation.presentValueOfLeasePayments <= Round2(undiscounted)
       /\ undiscounted - series >= Cent + SeriesTolerance =>
            calculation.presentValueOfLeasePayments < undiscounted

C19_Witness ==
  /\ DiscountedLease
  /\ leaseDataSchema(leaseData)
  /\ calculation.totalLeaseTerm = 1
  /\ leaseData.monthlyPayment = 44 * Cent
  /\ leaseData.discountRate = 1
  /\ calculation.presentValueOfLeasePayments = 44 * Cent

\* the positions of the lines of an account in a list of debits or credits
LinesFor(lines, account) == {i \in 1..Len(lines) : lines[i].account = account}

\* the lines of an account are a single line of the given amount when present
\* is true, and none otherwise
OneLineIff(lines, account, present, amount) ==
  IF present
  THEN \E i \in 1..Len(lines) :
         LinesFor(lines, account) = {i} /\ lines[i].amount = amount
  ELSE LinesFor(lines, account) = {}

\* C20: the initial recognition entry has the Right-of-Use Asset debit (initial
\* ROU amount) first and the Lease Liability credit (initial liability) first;
\* a Prepaid Rent credit, a Cash credit (initial direct costs) and a Lease
\* Incentives Receivable debit are present exactly when the lease value is > 0,
\* the Prepaid Rent credit before the Cash credit and the incentives debit
\* after the ROU debit.
C20_InitialEntryLines ==
  InitialEntryReturned =>
    LET debits == initialEntry.debits
        credits == initialEntry.credits
    IN /\ debits[1] = AccountEntry("Right-of-Use Asset",
                                   calculation.initialRightOfUseAsset)
       /\ credits[1] = AccountEntry("Lease Liability",
                                    calculation.initialLeaseLiability)
       /\ LinesFor(debits, "Right-of-Use Asset") = {1}
       /\ LinesFor(credits, "Lease Liability") = {1}
       /\ OneLineIff(credits, "Prepaid Rent", CostOf("prepaidRent") > 0,
                     CostOf("prepaidRent"))
       /\ OneLineIff(credits, "Cash", CostOf("initialDirectCosts") > 0,
                     CostOf("initialDirectCosts"))
       /\ OneLineIff(debits, "Lease Incentives Receivable",
                     CostOf("leaseIncentives") > 0, CostOf("leaseIncentives"))
       /\ \A i \in LinesFor(credits, "Prepaid Rent") :
            \A j \in LinesFor(credits, "Cash") : i < j
       /\ \A i \in LinesFor(debits, "Lease Incentives Receivable") : i > 1
       /\ Len(debits) = 1 + Cardinality(LinesFor(debits, "Lease Incentives Receivable"))
       /\ Len(credits) = 1 + Cardinality(LinesFor(credits, "Prepaid Rent"))
                           + Cardinality(LinesFor(credits, "Cash"))

C20_Witness ==
  /\ InitialEntryReturned
  /\ leaseDataSchema(leaseData)
  /\ Len(initialEntry.debits) = 2
  /\ Len(initialEntry.credits) = 3
  /\ initialEntry.debits[2].account = "Lease Incentives Receivable"
  /\ initialEntry.credits[2].account = "Prepaid Rent"
  /\ initialEntry.credits[3].account = "Cash"
  /\ initialEntry.credits[3].amount = 25 * Cent

\* C21: for every lease with monthly payment 0, any rate in [0, 1] and a term
\* of at least one month, calculateLeaseMetrics returns
\* presentValueOfLeasePayments = 0 and initialLeaseLiability = 0.
C21_ZeroPaymentZeroLiability ==
  (MetricsReturned /\ leaseData.monthlyPayment = 0
     /\ leaseData.discountRate >= 0 /\ leaseData.discountRate <= RateDen
     /\ calculation.totalLeaseTerm >= 1) =>
    /\ calculation.presentValueOfLeasePayments = 0
    /\ calculation.initialLeaseLiability = 0

C21_Witness ==
  /\ MetricsReturned
  /\ leaseData.monthlyPayment = 0
  /\ leaseData.discountRate = 1
  /\ calculation.totalLeaseTerm = 36
  /\ CostOf("prepaidRent") > 0
  /\ calculation.initialLeaseLiability = 0
  /\ calculation.initialRightOfUseAsset > 0

\* C22: balances are carried from one schedule row to the next after rounding
\* to cents: for every row n >= 2 of the schedule of a valid lease,
\* interestExpense is the recorded endingLeaseLiability of row n - 1 times
\* annualRate / 12, rounded to cents.
C22_InterestOfRecordedBalance ==
  (ScheduleReturned /\ leaseDataSchema(leaseData)) =>
    \A n \in 2..Len(schedule) :
      schedule[n].interestExpense
        = Round2(MulRat(schedule[n - 1].endingLeaseLiability,
                        leaseData.discountRate, MonthsPerYear * RateDen))

\* x when it is positive, 0 otherwise
FlooredAtZero(x) == IF x > 0 THEN x ELSE 0

\* C23: for every input lease, every schedule row has endingLeaseLiability >= 0
\* and rightOfUseAssetBalance >= 0, and the balance carried into the next row
\* is the floored one: the next row begins with the recorded ending liability
\* (no interest accrues on a liability floored at 0) and its asset balance is
\* this row's recorded balance less the month's amortization, floored at 0.
C23_FlooredBalances ==
  ScheduleReturned =>
    /\ \A i \in 1..Len(schedule) :
         /\ schedule[i].endingLeaseLiability >= 0
         /\ schedule[i].rightOfUseAssetBalance >= 0
    /\ \A i \in 1..(Len(schedule) - 1) :
         /\ schedule[i + 1].beginningLeaseLiability
              = schedule[i].endingLeaseLiability
         /\ schedule[i].endingLeaseLiability = 0 =>
              schedule[i + 1].interestExpense = 0
         /\ schedule[i + 1].rightOfUseAssetBalance
              = FlooredAtZero(schedule[i].rightOfUseAssetBalance
                                - schedule[i + 1].rightOfUseAssetAmortization)

C23_Witness ==
  /\ ScheduleReturned
  /\ leaseDataSchema(leaseData)
  /\ \E i \in 1..Len(schedule) :
       /\ schedule[i].principalReduction
            >= schedule[i].beginningLeaseLiability + Cent
       /\ schedule[i].endingLeaseLiability = 0
  /\ \E j \in 2..Len(schedule) :
       /\ schedule[j - 1].rightOfUseAssetBalance > 0
       /\ schedule[j].rightOfUseAssetAmortization
            > schedule[j - 1].rightOfUseAssetBalance
       /\ schedule[j].rightOfUseAssetBalance = 0

\* C24: for every start date of a valid lease, day of month 29, 30 or 31
\* included, row 1 of the schedule carries the lease start date and row m falls in the calendar month
\* m - 1 months after the start month, so that consecutive rows fall in
\* consecutive calendar months; each monthly journal entry carries the date of
\* its row.
C24_RowDatesAdvanceByMonth ==
  (MonthlyEntriesReturned /\ leaseDataSchema(leaseData)) =>
    /\ Len(schedule) >= 1 => schedule[1].date = leaseData.leaseStartDate
    /\ \A m \in 1..Len(schedule) :
         MonthIndex(schedule[m].date)
           = MonthIndex(leaseData.leaseStartDate) + m - 1
    /\ \A m \in 1..Len(schedule) :
         /\ monthlyEntries[2 * m - 1].entryDate = schedule[m].date
         /\ monthlyEntries[2 * m].entryDate = schedule[m].date

\* C25: generateMonthlyAmortizationEntries emits, for schedule row k, the
\* interest-and-payment entry at position 2k - 1 and the ROU amortization entry
\* at position 2k; the former debits Interest Expense (row interest) then
\* Lease Liability (row principal) and credits Cash (row payment), the latter
\* debits Amortization Expense and credits Accumulated Amortization by the
\* row's ROU amortization.
C25_TwoEntriesPerRowInOrder ==
  MonthlyEntriesReturned =>
    /\ Len(monthlyEntries) = 2 * Len(schedule)
    /\ \A k \in 1..Len(schedule) :
         LET row == schedule[k]
             interest == monthlyEntries[2 * k - 1]
             amortization == monthlyEntries[2 * k]
         IN /\ interest.debits
                 = << AccountEntry("Interest Expense", row.interestExpense),
                      AccountEntry("Lease Liability", row.principalReduction) >>
            /\ interest.credits = << AccountEntry("Cash", row.leasePayment) >>
            /\ amortization.debits
                 = << AccountEntry("Amortization Expense - Right-of-Use Asset",
                                   row.rightOfUseAssetAmortization) >>
            /\ amortization.credits
                 = << AccountEntry("Accumulated Amortization - Right-of-Use Asset",
                                   row.rightOfUseAssetAmortization) >>
            /\ interest.description[2] = k
            /\ amortization.description[2] = k

C25_Witness ==
  /\ MonthlyEntriesReturned
  /\ leaseDataSchema(leaseData)
  /\ Len(schedule) >= 3
  /\ schedule[2].interestExpense > schedule[3].interestExpense
  /\ schedule[3].interestExpense > 0
  /\ monthlyEntries[5].debits[1].amount = schedule[3].interestExpense
  /\ monthlyEntries[5].credits[1].amount = leaseData.monthlyPayment
  /\ monthlyEntries[6].debits[1].amount > 0
  /\ monthlyEntries[6].credits[1].account
       = "Accumulated Amortization - Right-of-Use Asset"

\* only GET /api/journal-entries requests have been sent, one per client at most
OnlyGetEntries ==
  /\ issued <= Cardinality(Clients)
  /\ \A r \in Clients : req[r].handler \in {"none", "getEntries"}

\* C26: whatever the interleaving of concurrent GET /api/journal-entries
\* requests for a lease that has no stored entries, the store never holds more
\* than one initial_recognition entry (more than one generated set) for that
\* lease.
C26_LazyGenerationOnce ==
  OnlyGetEntries =>
    \A leaseId \in DOMAIN StoredLeases :
      Cardinality(StoredOfType(journalEntries, leaseId, "initial_recognition"))
        <= 1

\* the step in which GET /api/journal-entries request r answers 200 for a
\* stored lease
GetEntriesAnswered(r) ==
  /\ req[r].handler = "getEntries"
  /\ req[r].pc # "done"
  /\ req'[r].pc = "done"
  /\ req'[r].status = 200
  /\ req[r].leaseId \in DOMAIN leases

\* C27: when requests are served one after the other, after a lease's terms
\* have been changed by a successful PUT the next GET /api/journal-entries for
\* that lease returns entries computed from the updated terms: every
\* interest-and-payment entry it returns credits Cash with the monthly payment
\* the lease now has.
C27_GetReturnsCurrentTerms ==
  [][\A r \in Clients :
       GetEntriesAnswered(r) =>
         \A i \in 1..Len(req'[r].response) :
           LET entry == req'[r].response[i]
           IN entry.credits[1].account = "Cash" =>
                entry.credits[1].amount = leases[req[r].leaseId].monthlyPayment]_vars

\* C28: every lease body the validation schema accepts (end date strictly
\* after start date, payment > 0, rate in [0, 1], optional costs >= 0) resolves
\* to a term of at least one month and yields finite calculateLeaseMetrics
\* values, a finite monthlyAmortizationExpense in particular.
C28_AcceptedLeaseHasTerm ==
  (MetricsReturned /\ leaseDataSchema(leaseData)) =>
    /\ calculation.totalLeaseTerm >= 1
    /\ calculation.monthlyAmortizationExpense.kind = "finite"

\* C29: for every valid lease (payment > 0, 0 <= rate <= 1, term >= 1) the
\* lease liability never grows along the schedule: every row has
\* principalReduction >= 0 and endingLeaseLiability <= beginningLeaseLiability.
C29_LiabilityNeverGrows ==
  (ScheduleReturned /\ leaseDataSchema(leaseData)
     /\ calculation.totalLeaseTerm >= 1) =>
    \A i \in 1..Len(schedule) :
      /\ schedule[i].principalReduction >= 0
      /\ schedule[i].endingLeaseLiability <= schedule[i].beginningLeaseLiability

\* C30: for every valid lease with term N >= 1 and initial right-of-use asset
\* >= 0, straight-line amortization consumes the asset: the last row's
\* rightOfUseAssetBalance is at most 0.01 * N, and rightOfUseAssetBalance does
\* not increase from row to row, starting from the initial asset.
C30_AssetFullyAmortized ==
  (ScheduleReturned /\ leaseDataSchema(leaseData)
     /\ calculation.totalLeaseTerm >= 1
     /\ calculation.initialRightOfUseAsset >= 0) =>
    /\ schedule[Len(schedule)].rightOfUseAssetBalance <= Cent * Len(schedule)
    /\ schedule[1].rightOfUseAssetBalance <= calculation.initialRightOfUseAsset
    /\ \A i \in 1..(Len(schedule) - 1) :
         schedule[i + 1].rightOfUseAssetBalance
           <= schedule[i].rightOfUseAssetBalance

C30_Witness ==
  /\ ScheduleReturned
  /\ leaseDataSchema(leaseData)
  /\ calculation.totalLeaseTerm = MaxTerm
  /\ calculation.initialRightOfUseAsset > Scale
  /\ schedule[1].rightOfUseAssetBalance < calculation.initialRightOfUseAsset
  /\ schedule[Len(schedule)].rightOfUseAssetBalance > 0
  /\ schedule[Len(schedule)].rightOfUseAssetBalance
       < schedule[Len(schedule) - 1].rightOfUseAssetBalance

====
